---- MODULE Spec2Model ----
(***************************************************************************)
(* Model of the metrics service in src/main.go: the raw fact tables, the   *)
(* bulk load, the scheduled aggregation of the two derived tables, and the *)
(* two analytical queries with their HTTP handlers.                        *)
(*                                                                         *)
(* A deployment row keeps the columns the queries read.  Its timestamp is  *)
(* kept at day granularity: every query reads it through DATE_TRUNC('day') *)
(* or compares it with a midnight (CURRENT_DATE - INTERVAL 'n days'), so   *)
(* the time of day never decides anything.  Decimal results rounded to two *)
(* places (ROUND(x, 2)) are kept as integers counting hundredths.          *)
(***************************************************************************)
EXTENDS Integers, Sequences, FiniteSets, TLC

VARIABLES mainpc, loadIdx, loadRet, schedOn, today,
          csv, rawBefore, deployments, incidents, pull_requests,
          daily_team_summary, team_rankings,
          jobs, nextRun, done, response

vars == <<mainpc, loadIdx, loadRet, schedOn, today,
          csv, rawBefore, deployments, incidents, pull_requests,
          daily_team_summary, team_rankings,
          jobs, nextRun, done, response>>

(* ------------------------------ bounds -------------------------------- *)
MaxDay == 2          \* deployment days range over 0..MaxDay, the last is today
MaxRows == 2         \* rows of the deployments table, query specification
MaxCsvRows == 1      \* rows of a deployments source, lifecycle specification
MaxRankRows == 3     \* rows of the deployments table, ranking specification
MaxRuns == 2         \* scheduler ticks in one behaviour
MaxStrLen == 2       \* length of the days query parameter

(* -------------------------- program constants ------------------------- *)
DefaultDays == 30
WeekDays == 7

(* ------------------------------- data --------------------------------- *)
TeamNames == <<"alpha", "beta", "gamma">>
TeamOrd(t) == CHOOSE i \in 1..Len(TeamNames) : TeamNames[i] = t
Statuses == {"success", "failed"}
Days == 0..MaxDay

\* The column values a row may take, indexed so that tables can be drawn
\* once per content: deployment_id is an opaque key no query reads.
AttrsOver(teams, days) ==
  {[team |-> t, day |-> d, status |-> s] : t \in teams, d \in days, s \in Statuses}

AttrCode(a) ==
  (TeamOrd(a.team) * (MaxDay + 1) + a.day) * 2 + (IF a.status = "success" THEN 1 ELSE 0)

\* The tables of at most n rows over attrs, one per content: the i-th row has
\* key i and a duration of 10 * i minutes.
TablesOver(attrs, n) ==
  UNION {{ {[deployment_id |-> i, team |-> f[i].team, day |-> f[i].day,
             duration_minutes |-> 10 * i, status |-> f[i].status] : i \in 1..k}
           : f \in {g \in [1..k -> attrs] :
                      \A i \in 1..k : \A j \in 1..k :
                         i < j => AttrCode(g[i]) <= AttrCode(g[j])} }
         : k \in 0..n}

(* --------------------------- SQL arithmetic --------------------------- *)
RECURSIVE SumOver(_, _)
SumOver(S, col) ==
  IF S = {} THEN 0
  ELSE LET r == CHOOSE x \in S : TRUE
       IN (IF col = "duration_minutes" THEN r.duration_minutes ELSE 1)
            + SumOver(S \ {r}, col)

\* ROUND(n / d, 2) of non-negative n and positive d, in hundredths.
Round2(n, d) == (2 * 100 * n + d) \div (2 * d)

Null == [null |-> TRUE, v |-> 0]
Val(x) == [null |-> FALSE, v |-> x]

TeamsOf(T) == {r.team : r \in T}
TeamRows(T, t) == {r \in T : r.team = t}
Succ(S) == {r \in S : r.status = "success"}

(* ------------------------- GetTeamMetrics query ------------------------ *)
TeamMetricsRow(T, t) ==
  LET g == TeamRows(T, t)
      s == Succ(g)
  IN [team |-> t,
      total_deployments |-> Cardinality(g),
      successful_deployments |-> Cardinality(s),
      success_rate |-> Round2(100 * Cardinality(s), Cardinality(g)),
      avg_duration |-> IF s = {} THEN Null
                       ELSE Val(Round2(SumOver(s, "duration_minutes"), Cardinality(s))),
      deployments_per_day |-> Round2(Cardinality(g), WeekDays)]

\* Every order the store may return the groups in: ORDER BY success_rate DESC
\* leaves the order of equal rates to the store.
TeamQueryResults(T) ==
  LET G == {TeamMetricsRow(T, t) : t \in TeamsOf(T)}
      n == Cardinality(G)
  IN {q \in [1..n -> G] :
        /\ \A i \in 1..n : \A j \in 1..n : i # j => q[i] # q[j]
        /\ \A i \in 1..n : \A j \in 1..n :
              i < j => q[i].success_rate >= q[j].success_rate}

(* ------------------------ GetDailyMetrics query ------------------------ *)
InWindowAfterStart(r, days, now) == r.day > now - days

\* timestamp >= (CURRENT_DATE - INTERVAL 'days days')
InWindow(r, days, now) == r.day >= now - days

TeamParam(team) == IF team # "" THEN Val(team) ELSE Null

DailyFiltered(T, team, days, now) ==
  {r \in T : /\ (TeamParam(team).null \/ r.team = TeamParam(team).v)
             /\ InWindow(r, days, now)}

DailyRow(S, d, t) ==
  LET g == {r \in S : r.day = d /\ r.team = t}
  IN [date |-> d, team |-> t,
      deployments |-> Cardinality(g),
      successful |-> Cardinality(Succ(g)),
      avg_duration |-> Val(Round2(SumOver(g, "duration_minutes"), Cardinality(g)))]

DailyQueryResult(T, team, days, now) ==
  LET S == DailyFiltered(T, team, days, now)
      G == {DailyRow(S, r.day, r.team) : r \in S}
      n == Cardinality(G)
  IN CHOOSE q \in [1..n -> G] :
        /\ \A i \in 1..n : \A j \in 1..n : i # j => q[i] # q[j]
        /\ \A i \in 1..n : \A j \in 1..n :
              i < j => \/ q[i].date > q[j].date
                       \/ /\ q[i].date = q[j].date
                          /\ TeamOrd(q[i].team) < TeamOrd(q[j].team)

(* --------------------------- reading the rows -------------------------- *)
NoFault == [kind |-> "none", at |-> 0]
FaultKinds == {"none", "query", "scan", "next"}

\* What the store can do to one call: fail the query, fail the Scan of row
\* i, or fail the i-th advance of the cursor.
Faults(n) ==
  {NoFault, [kind |-> "query", at |-> 0]}
    \cup {[kind |-> "scan", at |-> i] : i \in 1..n}
    \cup {[kind |-> "next", at |-> i] : i \in 1..(n + 1)}

\* rows.Scan into the fields of the Go struct: a NULL has no float64.
ScanFails(op, r) == op = "teams" /\ r.avg_duration.null

Scanned(op, r) ==
  IF op = "teams"
  THEN [Team |-> r.team,
        TotalDeployments |-> r.total_deployments,
        SuccessfulDeployments |-> r.successful_deployments,
        SuccessRate |-> r.success_rate,
        AvgDurationMinutes |-> r.avg_duration.v,
        DeploymentFrequency |-> r.deployments_per_day]
  ELSE [Date |-> <<"day", r.date>>,
        Team |-> r.team,
        Deployments |-> r.deployments,
        Successful |-> r.successful,
        AvgDuration |-> r.avg_duration.v]

\* The loop for rows.Next() { Scan; append } followed by return metrics, nil:
\* rows.Err() is never read, so a failed advance ends the loop like the end
\* of the rows does.
RECURSIVE ReadRows(_, _, _, _, _)
ReadRows(op, q, i, acc, fault) ==
  IF i > Len(q) \/ (fault.kind = "next" /\ fault.at = i)
  THEN [err |-> "nil", rows |-> acc]
  ELSE IF (fault.kind = "scan" /\ fault.at = i) \/ ScanFails(op, q[i])
       THEN [err |-> "scan failed", rows |-> << >>]
       ELSE ReadRows(op, q, i + 1, Append(acc, Scanned(op, q[i])), fault)

RunQuery(op, q, fault) ==
  IF fault.kind = "query"
  THEN [err |-> "query failed", rows |-> << >>]
  ELSE ReadRows(op, q, 1, << >>, fault)

(* ------------------------------ strconv.Atoi --------------------------- *)
Chars == {"-", "0", "1"}
Strings(n) == UNION {[1..k -> Chars] : k \in 0..n}
Absent == <<"absent">>

DigitVal(c) == IF c = "1" THEN 1 ELSE 0
IsDigit(c) == c \in {"0", "1"}

RECURSIVE Digits(_, _)
Digits(s, acc) == IF s = << >> THEN acc ELSE Digits(Tail(s), 10 * acc + DigitVal(Head(s)))

Atoi(s) ==
  LET body == IF s # << >> /\ Head(s) \in {"-", "+"} THEN Tail(s) ELSE s
      neg == s # << >> /\ Head(s) = "-"
  IN IF body = << >> \/ \E i \in 1..Len(body) : ~IsDigit(body[i])
     THEN [err |-> TRUE, n |-> 0]
     ELSE [err |-> FALSE, n |-> IF neg THEN 0 - Digits(body, 0) ELSE Digits(body, 0)]

\* c.DefaultQuery("days", "30") and the fallback on a parse error.
HandlerDays(daysQ) ==
  IF daysQ = Absent THEN DefaultDays
  ELSE IF Atoi(daysQ).err THEN DefaultDays ELSE Atoi(daysQ).n

(* ----------------------------- aggregation ----------------------------- *)
DailySummary(T) ==
  {[date |-> r.day, team |-> r.team,
    total_deployments |-> Cardinality({x \in T : x.day = r.day /\ x.team = r.team}),
    successful_deployments |->
        Cardinality(Succ({x \in T : x.day = r.day /\ x.team = r.team})),
    avg_duration_minutes |->
        Round2(SumOver({x \in T : x.day = r.day /\ x.team = r.team}, "duration_minutes"),
               Cardinality({x \in T : x.day = r.day /\ x.team = r.team}))] : r \in T}

\* A window's ORDER BY key as a fraction <<numerator, denominator>>.
SuccessKey(T, t) == <<100 * Cardinality(Succ(TeamRows(T, t))), Cardinality(TeamRows(T, t))>>
VelocityKey(T, t) == <<Cardinality(TeamRows(T, t)), 1>>
KeyGreater(a, b) == a[1] * b[2] > b[1] * a[2]

\* The partition in the window's order, key descending.
WindowOrder(key) ==
  LET n == Cardinality(DOMAIN key)
  IN CHOOSE q \in [1..n -> DOMAIN key] :
        /\ \A i \in 1..n : \A j \in 1..n : i # j => q[i] # q[j]
        /\ \A i \in 1..n : \A j \in 1..n : i < j => ~KeyGreater(key[q[j]], key[q[i]])

RECURSIVE DenseRankAt(_, _, _)
DenseRankAt(key, q, i) ==
  IF i = 1 THEN 1
  ELSE IF KeyGreater(key[q[i - 1]], key[q[i]])
       THEN DenseRankAt(key, q, i - 1) + 1
       ELSE DenseRankAt(key, q, i - 1)

\* RANK(): a row takes the rank of its first peer, and a row with a new key
\* takes its position in the window's order.
RECURSIVE RankAt(_, _, _)
RankAt(key, q, i) ==
  IF i = 1 THEN 1
  ELSE IF KeyGreater(key[q[i - 1]], key[q[i]]) THEN i ELSE RankAt(key, q, i - 1)

RankOf(key, t) ==
  LET q == WindowOrder(key)
  IN RankAt(key, q, CHOOSE i \in DOMAIN q : q[i] = t)

TeamRankings(T) ==
  LET sk == [t \in TeamsOf(T) |-> SuccessKey(T, t)]
      vk == [t \in TeamsOf(T) |-> VelocityKey(T, t)]
  IN {[team |-> t, success_rank |-> RankOf(sk, t), velocity_rank |-> RankOf(vk, t)]
        : t \in TeamsOf(T)}

NoTable == [exists |-> FALSE, run |-> 0, rows |-> {}]
Content(t) == <<t.exists, t.rows>>
Stored(run, rows) == [exists |-> TRUE, run |-> run, rows |-> rows]

(* ------------------------------- main ---------------------------------- *)
\* The order of main's steps: open the service, load, start the scheduler,
\* run the router.
NextPcSchedulerFirst(pc) ==
  CASE pc = "new" -> "sched"
    [] pc = "sched" -> "load"
    [] pc = "load" -> "router"
    [] OTHER -> "serving"

NextPc(pc) ==
  CASE pc = "new" -> "load"
    [] pc = "load" -> "sched"
    [] pc = "sched" -> "router"
    [] OTHER -> "serving"

NoResponse ==
  [op |-> "none", team |-> "", days |-> 0, faulted |-> FALSE,
   err |-> "nil", rows |-> << >>, status |-> 0]

\* NewMetricsService: open the store and create the raw tables if they are
\* missing; a failure is fatal.
NewMetricsService(fail) ==
  /\ mainpc = "new"
  /\ mainpc' = IF fail THEN "exit" ELSE NextPc("new")
  /\ UNCHANGED <<loadIdx, loadRet, schedOn, today, csv, rawBefore, deployments, incidents,
                 pull_requests, daily_team_summary, team_rankings, jobs, nextRun,
                 done, response>>

\* One db.Exec of LoadSampleData's queries: three DELETEs, then three INSERTs
\* from the source files.  The first error ends the load.
LoadSampleData(fail) ==
  /\ mainpc = "load"
  /\ loadRet = "pending"
  /\ IF fail
     THEN /\ loadRet' = "error"
          /\ mainpc' = NextPc("load")
          /\ UNCHANGED <<loadIdx, deployments, incidents, pull_requests>>
     ELSE /\ loadIdx' = loadIdx + 1
          /\ deployments' = CASE loadIdx = 0 -> {}
                              [] loadIdx = 3 -> deployments \cup csv.deployments
                              [] OTHER -> deployments
          /\ incidents' = CASE loadIdx = 1 -> {}
                            [] loadIdx = 4 -> incidents \cup csv.incidents
                            [] OTHER -> incidents
          /\ pull_requests' = CASE loadIdx = 2 -> {}
                                [] loadIdx = 5 -> pull_requests \cup csv.pull_requests
                                [] OTHER -> pull_requests
          /\ loadRet' = IF loadIdx = 5 THEN "nil" ELSE "pending"
          /\ mainpc' = IF loadIdx = 5 THEN NextPc("load") ELSE mainpc
  /\ UNCHANGED <<schedOn, today, csv, rawBefore, daily_team_summary, team_rankings, jobs,
                 nextRun, done, response>>

\* scheduler.Every(1).Hour().Do(...); scheduler.StartAsync()
StartScheduler ==
  /\ mainpc = "sched"
  /\ schedOn' = TRUE
  /\ mainpc' = NextPc("sched")
  /\ UNCHANGED <<loadIdx, loadRet, today, csv, rawBefore, deployments, incidents, pull_requests,
                 daily_team_summary, team_rankings, jobs, nextRun, done, response>>

\* router.Run(":8080"): listen, or fail and end the process.
RouterRun(fail) ==
  /\ mainpc = "router"
  /\ mainpc' = IF fail THEN "exit" ELSE NextPc("router")
  /\ UNCHANGED <<loadIdx, loadRet, schedOn, today, csv, rawBefore, deployments, incidents,
                 pull_requests, daily_team_summary, team_rankings, jobs, nextRun,
                 done, response>>

(* ----------------------------- the scheduler --------------------------- *)
\* The hourly job fires: the scheduler starts the registered function in a
\* goroutine of its own.  Neither the function nor its registration looks at
\* whether an earlier run has returned.
Tick ==
  /\ schedOn
  /\ mainpc # "exit"
  /\ nextRun <= MaxRuns
  /\ jobs' = jobs \cup {[id |-> nextRun, stmt |-> 1,
                         before |-> <<Content(daily_team_summary), Content(team_rankings)>>]}
  /\ nextRun' = nextRun + 1
  /\ UNCHANGED <<mainpc, loadIdx, loadRet, schedOn, today, csv, rawBefore, deployments, incidents,
                 pull_requests, daily_team_summary, team_rankings, done, response>>

\* One db.Exec of aggregateMetrics' queries by run j: the first replaces
\* daily_team_summary, the second team_rankings; the first error ends the run.
\* A run that returns is logged in done with its error, whether it found both
\* derived tables built, and whether it left their contents as it found them.
aggregateMetrics(j, fail) ==
  /\ j \in jobs
  /\ mainpc # "exit"
  /\ IF fail
     THEN /\ jobs' = jobs \ {j}
          /\ done' = done \cup {[id |-> j.id, err |-> "aggregation query failed",
                                 built |-> j.before[1][1] /\ j.before[2][1],
                                 intact |-> <<Content(daily_team_summary),
                                             Content(team_rankings)>> = j.before]}
          /\ UNCHANGED <<daily_team_summary, team_rankings>>
     ELSE IF j.stmt = 1
          THEN /\ daily_team_summary' = Stored(j.id, DailySummary(deployments))
               /\ jobs' = (jobs \ {j}) \cup {[j EXCEPT !.stmt = 2]}
               /\ UNCHANGED <<team_rankings, done>>
          ELSE /\ team_rankings' = Stored(j.id, TeamRankings(deployments))
               /\ jobs' = jobs \ {j}
               /\ done' = done \cup {[id |-> j.id, err |-> "nil",
                                      built |-> j.before[1][1] /\ j.before[2][1],
                                      intact |-> <<Content(daily_team_summary),
                                                  Content(team_rankings')>> = j.before]}
               /\ UNCHANGED daily_team_summary
  /\ UNCHANGED <<mainpc, loadIdx, loadRet, schedOn, today, csv, rawBefore, deployments, incidents,
                 pull_requests, nextRun, response>>

\* Some active run executes its next statement.
Aggregate == \E j \in jobs : \E fail \in BOOLEAN : aggregateMetrics(j, fail)

(* ------------------------------ the handlers --------------------------- *)
StatusOf(err) == IF err = "nil" THEN 200 ELSE 500

\* GET /api/v1/metrics/teams, the store failing in one of the ways of kinds.
getTeamMetrics(kinds) ==
  /\ mainpc = "serving"
  /\ response.op = "none"
  /\ \E q \in TeamQueryResults(deployments) :
       \E fault \in {f \in Faults(Len(q)) : f.kind \in kinds} :
         LET r == RunQuery("teams", q, fault)
         IN response' = [op |-> "teams", team |-> "", days |-> 0,
                         faulted |-> fault # NoFault,
                         err |-> r.err, rows |-> r.rows, status |-> StatusOf(r.err)]
  /\ UNCHANGED <<mainpc, loadIdx, loadRet, schedOn, today, csv, rawBefore, deployments,
                 incidents, pull_requests, daily_team_summary, team_rankings, jobs,
                 nextRun, done>>

\* GET /api/v1/metrics/daily?team=teamQ&days=daysQ
getDailyMetrics(teamQ, daysQ, kinds) ==
  /\ mainpc = "serving"
  /\ response.op = "none"
  /\ LET days == HandlerDays(daysQ)
         q == DailyQueryResult(deployments, teamQ, days, today)
     IN \E fault \in {f \in Faults(Len(q)) : f.kind \in kinds} :
          LET r == RunQuery("daily", q, fault)
          IN response' = [op |-> "daily", team |-> teamQ, days |-> days,
                          faulted |-> fault # NoFault,
                          err |-> r.err, rows |-> r.rows, status |-> StatusOf(r.err)]
  /\ UNCHANGED <<mainpc, loadIdx, loadRet, schedOn, today, csv, rawBefore, deployments,
                 incidents, pull_requests, daily_team_summary, team_rankings, jobs,
                 nextRun, done>>

\* c.JSON: the response is written and the request is over.
Respond ==
  /\ response.op # "none"
  /\ response' = NoResponse
  /\ UNCHANGED <<mainpc, loadIdx, loadRet, schedOn, today, csv, rawBefore, deployments, incidents,
                 pull_requests, daily_team_summary, team_rankings, jobs, nextRun, done>>

(* ---------------------------- specifications --------------------------- *)
LifeTables == TablesOver(AttrsOver({"alpha"}, {MaxDay}), MaxCsvRows)
QueryTables == TablesOver(AttrsOver({"alpha", "beta"}, Days), MaxRows)
RankTables == TablesOver(AttrsOver({"alpha", "beta", "gamma"}, {MaxDay}), MaxRankRows)

\* The process starts on the store file an earlier process left: raw tables
\* of some content, and the derived tables either never built or built from
\* that content.  The source files hold the content to load.
Init ==
  /\ mainpc = "new"
  /\ loadIdx = 0
  /\ loadRet = "pending"
  /\ schedOn = FALSE
  /\ today = MaxDay
  /\ deployments \in LifeTables
  /\ incidents = {"inc-0"}
  /\ pull_requests = {"pr-0"}
  /\ rawBefore = <<deployments, incidents, pull_requests>>
  /\ \E new \in LifeTables :
        csv = [deployments |-> new, incidents |-> {"inc-1"}, pull_requests |-> {"pr-1"}]
  /\ \E built \in BOOLEAN :
        /\ daily_team_summary = IF built THEN Stored(0, DailySummary(deployments)) ELSE NoTable
        /\ team_rankings = IF built THEN Stored(0, TeamRankings(deployments)) ELSE NoTable
  /\ jobs = {}
  /\ nextRun = 1
  /\ done = {}
  /\ response = NoResponse

Next ==
  \/ \E fail \in BOOLEAN : NewMetricsService(fail)
  \/ \E fail \in BOOLEAN : LoadSampleData(fail)
  \/ StartScheduler
  \/ \E fail \in BOOLEAN : RouterRun(fail)
  \/ Tick
  \/ Aggregate
  \/ getTeamMetrics({"none"})
  \/ getDailyMetrics("", Absent, {"none"})
  \/ Respond

Spec == Init /\ [][Next]_vars

\* The query service on its own: the server is up on a loaded store of any
\* content, and requests of every shape arrive while the store may fail.
InitQuery ==
  /\ mainpc = "serving"
  /\ loadIdx = 6
  /\ loadRet = "nil"
  /\ schedOn = TRUE
  /\ today = MaxDay
  /\ deployments \in QueryTables
  /\ incidents = {"inc-1"}
  /\ pull_requests = {"pr-1"}
  /\ rawBefore = <<{}, {}, {}>>
  /\ csv = [deployments |-> deployments, incidents |-> incidents,
            pull_requests |-> pull_requests]
  /\ daily_team_summary = NoTable
  /\ team_rankings = NoTable
  /\ jobs = {}
  /\ nextRun = 1
  /\ done = {}
  /\ response = NoResponse

NextQuery ==
  \/ getTeamMetrics(FaultKinds)
  \/ \E teamQ \in {"", "alpha"} :
       \E daysQ \in Strings(MaxStrLen) \cup {Absent} :
         getDailyMetrics(teamQ, daysQ, FaultKinds)
  \/ Respond

SpecQuery == InitQuery /\ [][NextQuery]_vars

\* The aggregation on its own: the scheduler runs on a loaded store of any
\* content over three teams.
InitAgg ==
  /\ mainpc = "serving"
  /\ loadIdx = 6
  /\ loadRet = "nil"
  /\ schedOn = TRUE
  /\ today = MaxDay
  /\ deployments \in RankTables
  /\ incidents = {"inc-1"}
  /\ pull_requests = {"pr-1"}
  /\ rawBefore = <<{}, {}, {}>>
  /\ csv = [deployments |-> deployments, incidents |-> incidents,
            pull_requests |-> pull_requests]
  /\ daily_team_summary = NoTable
  /\ team_rankings = NoTable
  /\ jobs = {}
  /\ nextRun = 1
  /\ done = {}
  /\ response = NoResponse

NextAgg ==
  \/ Tick
  \/ Aggregate

SpecAgg == InitAgg /\ [][NextAgg]_vars

(* ------------------------------- claims -------------------------------- *)
\* C1: a run of aggregateMetrics that reports failure leaves daily_team_summary
\* and team_rankings with the contents they had when the run started (stated
\* for runs that follow a load without error and find both tables built).
AggregationFailureLeavesTables ==
  \A d \in done :
     (loadRet = "nil" /\ d.err # "nil" /\ d.built) => d.intact

\* C2: at every moment at most one run of aggregateMetrics is active.
AtMostOneRun == Cardinality(jobs) <= 1

\* C3: when the store does not fail, GetTeamMetrics returns no error and
\* exactly one entry per team that has a deployment row.
TeamMetricsOnePerTeam ==
  (response.op = "teams" /\ ~response.faulted) =>
     /\ response.err = "nil"
     /\ Len(response.rows) = Cardinality({r.team : r \in deployments})
     /\ {response.rows[i].Team : i \in 1..Len(response.rows)} = {r.team : r \in deployments}

\* The groups the query of the last call selects: its complete result has one
\* row for each.
GroupsOfCall ==
  IF response.op = "teams"
  THEN {<<0, r.team>> : r \in deployments}
  ELSE {<<r.day, r.team>> :
          r \in {x \in deployments : /\ response.team = "" \/ x.team = response.team
                                     /\ x.day >= today - response.days}}

\* C4: GetTeamMetrics and GetDailyMetrics return either an error and no rows,
\* or no error and every row of the query's result.
NoPartialResult ==
  response.op # "none" =>
     /\ response.err # "nil" => response.rows = << >>
     /\ response.err = "nil" => Len(response.rows) = Cardinality(GroupsOfCall)

\* Deployment counts and success rates of the teams, read off deployments,
\* and the teams grouped by equal rate and by equal count.
TotalOf(t) == Cardinality({r \in deployments : r.team = t})
SuccOf(t) == Cardinality({r \in deployments : r.team = t /\ r.status = "success"})
RateAbove(u, t) == SuccOf(u) * TotalOf(t) > SuccOf(t) * TotalOf(u)
RateClasses ==
  {{u \in TeamsOf(deployments) : ~RateAbove(u, t) /\ ~RateAbove(t, u)}
      : t \in TeamsOf(deployments)}
CountClasses ==
  {{u \in TeamsOf(deployments) : TotalOf(u) = TotalOf(t)} : t \in TeamsOf(deployments)}

DaysZeroIsEmpty ==
  (response.op = "daily" /\ response.days = 0 /\ ~response.faulted) =>
     response.err = "nil" /\ response.rows = << >>

\* C6 as amended: GetDailyMetrics returns no rows when every deployment lies
\* before the start of the window; with days = 0 it never returns a row of a
\* day before the current date, and when the store does not fail it returns
\* no error and one row per day and team of the deployments of the current
\* date or later that pass the team filter.
DaysZeroStartsToday ==
  response.op = "daily" =>
     /\ (\A r \in deployments : r.day < today - response.days) => response.rows = << >>
     /\ response.days = 0 =>
          /\ \A i \in 1..Len(response.rows) : response.rows[i].Date[2] >= today
          /\ ~response.faulted =>
               /\ response.err = "nil"
               /\ {<<response.rows[i].Date[2], response.rows[i].Team>>
                      : i \in 1..Len(response.rows)}
                    = {<<r.day, r.team>> :
                         r \in {x \in deployments :
                                  /\ response.team = "" \/ x.team = response.team
                                  /\ x.day >= today}}
               /\ \A i \in 1..Len(response.rows) : \A j \in 1..Len(response.rows) :
                     i # j => response.rows[i] # response.rows[j]

\* A call with days = 0 and no store failure that returns rows.
DaysZeroReturnsRows ==
  /\ response.op = "daily"
  /\ response.days = 0
  /\ ~response.faulted
  /\ response.err = "nil"
  /\ response.rows # << >>

\* C7: every days the handler passes to GetDailyMetrics is positive.
HandlerDaysPositive == response.op = "daily" => response.days > 0

\* C8: a LoadSampleData that reports failure leaves the three raw tables with
\* the rows they held before the load.
LoadAllOrNothing ==
  loadRet = "error" => <<deployments, incidents, pull_requests>> = rawBefore

\* C9: once a run of aggregateMetrics has returned, the two derived tables,
\* when both built, are the rollups of one and the same snapshot of
\* deployments, as tables built by one run from one snapshot are (stated for
\* the runs that follow a load without error; the snapshots a table can come
\* from are the content before the load and the content after it).
DerivedTablesFromOneSnapshot ==
  (loadRet = "nil" /\ done # {} /\ daily_team_summary.exists /\ team_rankings.exists) =>
     \E T \in {rawBefore[1], deployments} :
        /\ daily_team_summary.rows = DailySummary(T)
        /\ team_rankings.rows = TeamRankings(T)

\* C10: LoadSampleData has returned before the scheduler is started, before
\* any aggregation run starts and before any request is served, and it is
\* not entered again.
LoadHappensBeforeReaders ==
  /\ (schedOn \/ jobs # {} \/ done # {} \/ response.op # "none"
         \/ mainpc \in {"router", "serving"}) => loadRet # "pending"
  /\ loadRet # "pending" => mainpc # "load"

\* A request is being served while an aggregation run is active, after a
\* load that ran all six statements.
ReadersRunAfterLoad ==
  /\ loadRet = "nil"
  /\ loadIdx = 6
  /\ deployments = csv.deployments
  /\ jobs # {}
  /\ response.op # "none"

====
